---- MODULE Spec2Model ----
(***************************************************************************)
(* Model of sw/utils/read_bitmap_header/read_bitmap_header.cpp:            *)
(* readBmpHeader() opens a file, reads sizeof(BitmapFileHeader) bytes into *)
(* a packed record, checks the magic number and prints two fields; main()  *)
(* calls it on a fixed path and returns 0.  The program is invoked twice   *)
(* in a row on the same path so that two invocations can be compared.      *)
(* A uint32_t is kept as two 16-bit limbs [hi, lo] (value hi*2^16 + lo).   *)
(***************************************************************************)
EXTENDS Integers, Sequences, FiniteSets, TLC

VARIABLES openable,     \* whether std::ifstream's open of the path succeeds
          files,        \* files[r]: bytes of the file at the path during invocation r
          run,          \* which invocation of the program is executing (1 or 2)
          pc,           \* position of the invocation in main/readBmpHeader
          handle,       \* the ifstream's file handle: "none", "open", "closed"
          pos,          \* the stream's read position
          streamState,  \* the stream's iostate bits
          gcount,       \* bytes stored by the last read (file.gcount())
          header,       \* the bytes of the BitmapFileHeader object, <<>> before its declaration
          cout,         \* lines written to std::cout
          cerr,         \* lines written to std::cerr
          exitStatus,   \* <<value returned by main>>, <<>> while it runs
          trace,        \* the calls made on the stream and the header, in order
          prev          \* output of the previous invocation

vars == <<openable, files, run, pc, handle, pos, streamState, gcount, header,
          cout, cerr, exitStatus, trace, prev>>

----------------------------------------------------------------------------
(* Bounds of the input space *)

MaxTail == 1

TailBytes == {0, 7}

GarbageBytes == {0, 77, 255}

----------------------------------------------------------------------------
(* struct __attribute__((packed)) BitmapFileHeader: field offsets and size *)

OffType == 0

OffSize == 2

OffReserved1 == 6

OffBits == 10

SizeofHeader == 14

BmpMagic == 19778   \* 0x4D42

Filename == "../../../data/images/test_10x10.bmp"

Min(a, b) == IF a < b THEN a ELSE b

(* A uint16_t stored at byte offset off (little-endian target) *)
Be16(b, off) == 256 * b[off + 1] + b[off + 2]

Le16(b, off) == b[off + 1] + 256 * b[off + 2]

(* A uint32_t stored at byte offset off, as limbs *)
Be32(b, off) == [hi |-> Be16(b, off), lo |-> Be16(b, off + 2)]

Le32(b, off) == [lo |-> Le16(b, off), hi |-> Le16(b, off + 2)]

bfType(h) == Le16(h, OffType)

bfSize_Unpacked(h) == Le32(h, OffSize + 2)

bfSize(h) == Le32(h, OffSize)

bfOffBits(h) == Le32(h, OffBits)

(* operator<<(unsigned): decimal digits, most significant first; the
   quotient and remainder of one division give the leading digits and the
   last digit *)
DivMod10(v) ==
    LET t == (v.hi % 10) * 65536 + v.lo
    IN  [q |-> [hi |-> v.hi \div 10, lo |-> t \div 10], r |-> t % 10]

RECURSIVE ToDecimal(_)
ToDecimal(v) ==
    IF v.hi = 0 /\ v.lo < 10
    THEN <<v.lo>>
    ELSE CHOOSE d \in {Append(ToDecimal(x.q), x.r) : x \in {DivMod10(v)}} : TRUE

(* std::ifstream::close / the filebuf destructor *)
CloseFile_Leak(h) == h

CloseFile(h) == IF h = "open" THEN "closed" ELSE h

----------------------------------------------------------------------------
(* The files the invocations are run on *)

SigChoices == {<<66, 77>>, <<0, 0>>, <<77, 66>>}

SizeChoices == {<<70, 0, 0, 0>>, <<255, 255, 255, 255>>, <<0, 0, 0, 128>>, <<14, 0, 0, 0>>}

ReservedChoices == {<<0, 0, 0, 0>>, <<1, 0, 2, 0>>}

OffChoices == {<<54, 0, 0, 0>>, <<255, 255, 255, 255>>, <<1, 2, 3, 4>>}

Tails == UNION {[1..n -> TailBytes] : n \in 0..MaxTail}

Headers == {s \o z \o r \o o : s \in SigChoices, z \in SizeChoices,
                               r \in ReservedChoices, o \in OffChoices}

FullFiles == {h \o t : h \in Headers, t \in Tails}

ShortFiles == {SubSeq(h, 1, n) : h \in Headers, n \in 0..13}

Files == FullFiles \cup ShortFiles

(* The files the second invocation may find at the path: the same file, or
   one that differs only in reserved1/reserved2 and from offset 14 on *)
Variants(f) ==
    {f} \cup (IF Len(f) >= 14
              THEN {SubSeq(f, 1, OffReserved1) \o r \o SubSeq(f, OffBits + 1, SizeofHeader) \o t :
                        r \in ReservedChoices, t \in Tails}
              ELSE {})

FilePairs == UNION {{<<f, g>> : g \in Variants(f)} : f \in Files}

CurFile == files[run]

(* What the storage of an uninitialized BitmapFileHeader may hold *)
StaleHeader == <<66, 77, 70, 0, 0, 0, 0, 0, 0, 0, 54, 0, 0, 0>>

Garbage == {[i \in 1..SizeofHeader |-> g] : g \in GarbageBytes} \cup {StaleHeader}

Event(op, n, at) == [op |-> op, n |-> n, at |-> at]

NoPrev == [cout |-> <<>>, cerr |-> <<>>, exitStatus |-> <<>>]

----------------------------------------------------------------------------
Init ==
    /\ openable \in BOOLEAN
    /\ files \in FilePairs
    /\ run = 1
    /\ pc = "start"
    /\ handle = "none"
    /\ pos = 0
    /\ streamState = {}
    /\ gcount = 0
    /\ header = <<>>
    /\ cout = <<>>
    /\ cerr = <<>>
    /\ exitStatus = <<>>
    /\ trace = <<>>
    /\ prev = NoPrev

(* line 17-18: std::ifstream file(filename, std::ios::binary); is_open() *)
Open_AtEnd ==
    /\ pc = "start"
    /\ IF openable
       THEN /\ handle' = "open"
            /\ pos' = Len(CurFile)
            /\ pc' = "declare"
            /\ trace' = Append(trace, Event("open", 0, 0))
       ELSE /\ handle' = "none"
            /\ pos' = 0
            /\ pc' = "open_failed"
            /\ trace' = Append(trace, Event("openfail", 0, 0))
    /\ streamState' = IF openable THEN {} ELSE {"failbit"}
    /\ UNCHANGED <<openable, files, run, gcount, header, cout, cerr, exitStatus, prev>>

Open ==
    /\ pc = "start"
    /\ IF openable
       THEN /\ handle' = "open"
            /\ pos' = 0
            /\ pc' = "declare"
            /\ trace' = Append(trace, Event("open", 0, 0))
       ELSE /\ handle' = "none"
            /\ pos' = 0
            /\ pc' = "open_failed"
            /\ trace' = Append(trace, Event("openfail", 0, 0))
    /\ streamState' = IF openable THEN {} ELSE {"failbit"}
    /\ UNCHANGED <<openable, files, run, gcount, header, cout, cerr, exitStatus, prev>>

(* line 19-20: report the open failure and return *)
ReportOpenError_NoReturn ==
    /\ pc = "open_failed"
    /\ cerr' = Append(cerr, <<"Error: Could not open file ", Filename>>)
    /\ pc' = "declare"
    /\ UNCHANGED <<openable, files, run, handle, pos, streamState, gcount, header,
                   cout, exitStatus, trace, prev>>

ReportOpenError ==
    /\ pc = "open_failed"
    /\ cerr' = Append(cerr, <<"Error: Could not open file ", Filename>>)
    /\ pc' = "return"
    /\ UNCHANGED <<openable, files, run, handle, pos, streamState, gcount, header,
                   cout, exitStatus, trace, prev>>

(* line 23: BitmapFileHeader header;  (no initializer) *)
DeclareHeader ==
    /\ pc = "declare"
    /\ header' \in Garbage
    /\ pc' = "read"
    /\ UNCHANGED <<openable, files, run, handle, pos, streamState, gcount,
                   cout, cerr, exitStatus, trace, prev>>

(* line 24: file.read(reinterpret_cast<char*>(&header), sizeof(header)) *)
ReadHeader ==
    /\ pc = "read"
    /\ LET avail == IF handle = "open" /\ streamState = {} /\ pos <= Len(CurFile)
                    THEN Len(CurFile) - pos ELSE 0
           n == Min(SizeofHeader, avail)
       IN  /\ header' = [i \in 1..SizeofHeader |->
                            IF i <= n THEN CurFile[pos + i] ELSE header[i]]
           /\ gcount' = n
           /\ pos' = pos + n
           /\ streamState' = IF n < SizeofHeader
                             THEN streamState \cup {"eofbit", "failbit"}
                             ELSE streamState
           /\ trace' = Append(trace, Event("read", SizeofHeader, pos))
    /\ pc' = "check"
    /\ UNCHANGED <<openable, files, run, handle, cout, cerr, exitStatus, prev>>

(* line 27: if (header.bfType != 0x4D42) *)
CheckSignature ==
    /\ pc = "check"
    /\ trace' = Append(trace, Event("check", 0, 0))
    /\ pc' = IF bfType(header) # BmpMagic THEN "invalid" ELSE "print_size"
    /\ UNCHANGED <<openable, files, run, handle, pos, streamState, gcount, header,
                   cout, cerr, exitStatus, prev>>

(* line 28: std::cerr << "Error: Not a valid BMP file." *)
ReportInvalid_FallThrough ==
    /\ pc = "invalid"
    /\ cerr' = Append(cerr, <<"Error: Not a valid BMP file.">>)
    /\ pc' = "print_size"
    /\ UNCHANGED <<openable, files, run, handle, pos, streamState, gcount, header,
                   cout, exitStatus, trace, prev>>

ReportInvalid ==
    /\ pc = "invalid"
    /\ cerr' = Append(cerr, <<"Error: Not a valid BMP file.">>)
    /\ pc' = "invalid_close"
    /\ UNCHANGED <<openable, files, run, handle, pos, streamState, gcount, header,
                   cout, exitStatus, trace, prev>>

(* line 29-30: file.close(); return; *)
CloseInvalid ==
    /\ pc = "invalid_close"
    /\ handle' = CloseFile(handle)
    /\ trace' = Append(trace, Event("close", 0, 0))
    /\ pc' = "return"
    /\ UNCHANGED <<openable, files, run, pos, streamState, gcount, header,
                   cout, cerr, exitStatus, prev>>

(* line 33: std::cout << "File size: " << header.bfSize << " bytes" *)
PrintSize ==
    /\ pc = "print_size"
    /\ cout' = Append(cout, [text |-> "File size: ",
                             value |-> ToDecimal(bfSize(header)),
                             unit |-> " bytes"])
    /\ trace' = Append(trace, Event("print", 0, OffSize))
    /\ pc' = "print_offset"
    /\ UNCHANGED <<openable, files, run, handle, pos, streamState, gcount, header,
                   cerr, exitStatus, prev>>

(* line 34: std::cout << "Header size (offset to pixel data): " << header.bfOffBits *)
PrintOffset ==
    /\ pc = "print_offset"
    /\ cout' = Append(cout, [text |-> "Header size (offset to pixel data): ",
                             value |-> ToDecimal(bfOffBits(header)),
                             unit |-> " bytes"])
    /\ trace' = Append(trace, Event("print", 0, OffBits))
    /\ pc' = "close"
    /\ UNCHANGED <<openable, files, run, handle, pos, streamState, gcount, header,
                   cerr, exitStatus, prev>>

(* line 36: file.close(); *)
CloseOk ==
    /\ pc = "close"
    /\ handle' = CloseFile(handle)
    /\ trace' = Append(trace, Event("close", 0, 0))
    /\ pc' = "return"
    /\ UNCHANGED <<openable, files, run, pos, streamState, gcount, header,
                   cout, cerr, exitStatus, prev>>

(* line 21/30/37: leaving readBmpHeader destroys the ifstream *)
Return ==
    /\ pc = "return"
    /\ handle' = CloseFile(handle)
    /\ pc' = "main_return"
    /\ UNCHANGED <<openable, files, run, pos, streamState, gcount, header,
                   cout, cerr, exitStatus, trace, prev>>

(* line 43: return 0; *)
MainReturn_StatusOnError ==
    /\ pc = "main_return"
    /\ exitStatus' = IF cerr # <<>> THEN <<1>> ELSE <<0>>
    /\ pc' = "exited"
    /\ UNCHANGED <<openable, files, run, handle, pos, streamState, gcount, header,
                   cout, cerr, trace, prev>>

MainReturn ==
    /\ pc = "main_return"
    /\ exitStatus' = <<0>>
    /\ pc' = "exited"
    /\ UNCHANGED <<openable, files, run, handle, pos, streamState, gcount, header,
                   cout, cerr, trace, prev>>

(* line 39-44: the program is started a second time on the same path *)
Restart ==
    /\ pc = "exited"
    /\ run = 1
    /\ run' = 2
    /\ prev' = [cout |-> cout, cerr |-> cerr, exitStatus |-> exitStatus]
    /\ pc' = "start"
    /\ handle' = "none"
    /\ pos' = 0
    /\ streamState' = {}
    /\ gcount' = 0
    /\ header' = <<>>
    /\ cout' = <<>>
    /\ cerr' = <<>>
    /\ exitStatus' = <<>>
    /\ trace' = <<>>
    /\ UNCHANGED <<openable, files>>

Step ==
    \/ Open
    \/ ReportOpenError
    \/ DeclareHeader
    \/ ReadHeader
    \/ CheckSignature
    \/ ReportInvalid
    \/ CloseInvalid
    \/ PrintSize
    \/ PrintOffset
    \/ CloseOk
    \/ Return
    \/ MainReturn

Next == Step \/ Restart

Spec == Init /\ [][Next]_vars

(* Every statement of the sequential program is eventually executed *)
LiveSpec == Init /\ [][Next]_vars /\ WF_vars(Step)

----------------------------------------------------------------------------
(* Vocabulary of the properties *)

Returned == {"main_return", "exited"}

InvalidLine == <<"Error: Not a valid BMP file.">>

OpenErrorLine == <<"Error: Could not open file ", Filename>>

Ops(op) == {i \in 1..Len(trace) : trace[i].op = op}

(* The uint32 that bytes off..off+3 of file f encode, least significant byte first *)
Encoded(f, off) ==
    [lo |-> f[off + 1] + 256 * f[off + 2], hi |-> f[off + 3] + 256 * f[off + 4]]

(* A decimal numeral without sign and without leading zeros *)
Canonical(d) ==
    /\ Len(d) >= 1
    /\ \A i \in 1..Len(d) : d[i] \in 0..9
    /\ Len(d) > 1 => d[1] # 0

(* The number a decimal numeral denotes, as limbs; ok is FALSE past 2^32-1 *)
RECURSIVE FromDecimal(_)
FromDecimal(d) ==
    IF Len(d) = 0
    THEN [hi |-> 0, lo |-> 0, ok |-> TRUE]
    ELSE LET p == FromDecimal(SubSeq(d, 1, Len(d) - 1))
             t == p.lo * 10 + d[Len(d)]
             h == p.hi * 10 + t \div 65536
         IN  [hi |-> h % 65536, lo |-> t % 65536, ok |-> p.ok /\ h < 65536]

Denotes(d, v) ==
    /\ Canonical(d)
    /\ FromDecimal(d) = [hi |-> v.hi, lo |-> v.lo, ok |-> TRUE]

HasSignature(f) == Len(f) >= 2 /\ f[1] = 66 /\ f[2] = 77

ExampleHeader == <<66, 77, 70, 0, 0, 0, 0, 0, 0, 0, 54, 0, 0, 0>>

(* f and g hold at least 14 bytes and agree on bytes 0..5 and 10..13 *)
SameKey(f, g) ==
    /\ Len(f) >= 14
    /\ Len(g) >= 14
    /\ SubSeq(f, 1, 6) = SubSeq(g, 1, 6)
    /\ SubSeq(f, 11, 14) = SubSeq(g, 11, 14)

----------------------------------------------------------------------------
(* C1: for a file that opens, holds at least 14 bytes and starts with the
   bytes 42 4D, readBmpHeader reports exactly two values: bytes 2..5 and
   bytes 10..13, each as the unsigned 32-bit little-endian number they
   encode, printed in full (42 4D 46 00 00 00 00 00 00 00 36 00 00 00
   reports 70 and 54; FF FF FF FF reports 4294967295). *)
C1_ReportsEncodedFields ==
    (pc \in Returned /\ openable /\ Len(CurFile) >= 14 /\ HasSignature(CurFile)) =>
        /\ cerr = <<>>
        /\ Len(cout) = 2
        /\ cout[1].text = "File size: "
        /\ cout[2].text = "Header size (offset to pixel data): "
        /\ Denotes(cout[1].value, Encoded(CurFile, 2))
        /\ Denotes(cout[2].value, Encoded(CurFile, 10))
        /\ SubSeq(CurFile, 1, 14) = ExampleHeader =>
               cout[1].value = <<7, 0>> /\ cout[2].value = <<5, 4>>
        /\ SubSeq(CurFile, 3, 6) = <<255, 255, 255, 255>> =>
               cout[1].value = <<4, 2, 9, 4, 9, 6, 7, 2, 9, 5>>
        /\ SubSeq(CurFile, 3, 6) = <<0, 0, 0, 128>> =>
               cout[1].value = <<2, 1, 4, 7, 4, 8, 3, 6, 4, 8>>

C1_Witness ==
    /\ pc = "exited"
    /\ openable
    /\ Len(CurFile) >= 14
    /\ SubSeq(CurFile, 1, 14) = ExampleHeader
    /\ Len(cout) = 2
    /\ cout[1].value = <<7, 0>>
    /\ cout[2].value = <<5, 4>>

(* C2: for a file that opens and whose first two bytes (the file holds at
   least two) are not 42 4D, readBmpHeader writes
   "Error: Not a valid BMP file." and reports neither fileSizeBytes nor
   pixelDataOffset. *)
C2_InvalidFormat ==
    (pc \in Returned /\ openable /\ Len(CurFile) >= 2 /\ ~HasSignature(CurFile)) =>
        /\ cerr = <<InvalidLine>>
        /\ cout = <<>>
        /\ Ops("print") = {}

C2_Witness ==
    /\ pc = "exited"
    /\ openable
    /\ Len(CurFile) >= 2
    /\ SubSeq(CurFile, 1, 2) = <<0, 0>>
    /\ cerr = <<InvalidLine>>
    /\ cout = <<>>

(* C3: when the open fails, readBmpHeader writes the open error and does
   nothing else: no read, no signature check, no field and no
   invalid-format message. *)
C3_OpenFailureStops ==
    (~openable /\ pc # "start") =>
        /\ handle = "none"
        /\ Ops("read") = {} /\ Ops("check") = {} /\ Ops("print") = {}
        /\ header = <<>>
        /\ cout = <<>>
        /\ \A i \in 1..Len(cerr) : cerr[i] # InvalidLine
        /\ pc \in Returned => cerr = <<OpenErrorLine>>

C3_Witness ==
    /\ ~openable
    /\ pc = "exited"
    /\ cerr = <<OpenErrorLine>>
    /\ trace = <<Event("openfail", 0, 0)>>

(* C4: for a file shorter than 14 bytes that opens, the signature check and
   the report only ever use header bytes that the read actually stored: the
   signature is checked only when its two bytes were read, and a field is
   printed only when all 14 bytes were read. *)
C4_NoUninitializedUse ==
    (openable /\ Len(CurFile) < 14) =>
        /\ Ops("check") # {} => gcount >= OffType + 2
        /\ Ops("print") # {} => gcount >= SizeofHeader

(* C5: invoking the reader twice on the same unchanged file, of any length,
   yields the same outcome and the same reported values both times. *)
C5_Idempotent ==
    (run = 2 /\ pc = "exited" /\ files[1] = files[2]) =>
        /\ cout = prev.cout
        /\ cerr = prev.cerr
        /\ exitStatus = prev.exitStatus

(* C6: whenever the open succeeded the handle is closed once readBmpHeader
   has returned, on the success path, the invalid-signature path and after
   a short read alike; the handle is never open after return, and no read
   follows a close. *)
C6_HandleReleased ==
    /\ pc \in Returned => handle # "open"
    /\ (pc \in Returned /\ openable) => handle = "closed"
    /\ handle = "open" => openable
    /\ \A c \in Ops("close") : \A r \in Ops("read") : r < c

C6_Witness ==
    /\ pc = "exited"
    /\ openable
    /\ Len(CurFile) < 14
    /\ "failbit" \in streamState
    /\ handle = "closed"
    /\ Ops("close") # {}

(* C7: an invocation ends in exactly one of open error, invalid format and
   success; on failure exactly one diagnostic line is on the error stream
   and nothing on the output stream, on success exactly the two lines
   "File size: <n> bytes" and "Header size (offset to pixel data): <n> bytes"
   are on the output stream, in that order, and nothing on the error
   stream. *)
C7_ExclusiveStreams ==
    /\ cerr # <<>> => cout = <<>>
    /\ Len(cerr) <= 1
    /\ pc \in Returned =>
        \/ cerr = <<OpenErrorLine>> /\ cout = <<>>
        \/ cerr = <<InvalidLine>> /\ cout = <<>>
        \/ /\ cerr = <<>>
           /\ Len(cout) = 2
           /\ cout[1].text = "File size: "
           /\ cout[2].text = "Header size (offset to pixel data): "
           /\ \A i \in 1..2 : Canonical(cout[i].value) /\ cout[i].unit = " bytes"

C7_Witness ==
    /\ pc = "exited"
    /\ cerr = <<>>
    /\ Len(cout) = 2
    /\ cout[1].text = "File size: "
    /\ cout[1].value = <<4, 2, 9, 4, 9, 6, 7, 2, 9, 5>>
    /\ cout[2].text = "Header size (offset to pixel data): "

(* C8: every invocation terminates, and main returns 0 after an open error,
   after an invalid format and after success alike; the open is attempted
   once and never retried. *)
C8_ExitsWithZero ==
    /\ [](pc = "exited" => exitStatus = <<0>>)
    /\ [](pc # "exited" => exitStatus = <<>>)
    /\ [](Cardinality(Ops("open") \cup Ops("openfail")) <= 1)
    /\ (pc = "start") ~> (pc = "exited")

C8_Witness ==
    /\ pc = "exited"
    /\ exitStatus = <<0>>
    /\ cerr = <<OpenErrorLine>>
    /\ run = 2
    /\ prev.exitStatus = <<0>>

(* C9: two files of at least 14 bytes that agree on bytes 0..5 and 10..13
   give the same outcome and the same reported values, whatever bytes 6..9
   and the bytes from offset 14 on hold; a file with the signature is
   accepted whatever its reserved fields, its recorded size and its pixel
   data offset are. *)
C9_DependsOnKeyBytesOnly ==
    /\ (run = 2 /\ pc = "exited" /\ SameKey(files[1], files[2])) =>
           cout = prev.cout /\ cerr = prev.cerr
    /\ (pc = "exited" /\ openable /\ Len(CurFile) >= 14 /\ HasSignature(CurFile)) =>
           cerr = <<>> /\ Len(cout) = 2

C9_Witness ==
    /\ run = 2
    /\ pc = "exited"
    /\ openable
    /\ SameKey(files[1], files[2])
    /\ SubSeq(files[1], 7, 10) = <<0, 0, 0, 0>>
    /\ SubSeq(files[2], 7, 10) = <<1, 0, 2, 0>>
    /\ Len(files[1]) # Len(files[2])
    /\ SubSeq(files[2], 3, 6) = <<70, 0, 0, 0>>
    /\ SubSeq(files[2], 11, 14) = <<255, 255, 255, 255>>
    /\ Len(cout) = 2
    /\ cout = prev.cout

(* C10: within one invocation the header is filled by exactly one read that
   requests 14 bytes at file offset 0; the read follows a successful open
   and precedes the signature check, the check precedes every print, the
   header does not change between the read and the report, and the file
   is never written. *)
AfterRead == {"check", "invalid", "invalid_close", "print_size", "print_offset", "close"}

C10_StepOrder ==
    /\ \A r \in Ops("read") :
           /\ trace[r] = Event("read", 14, 0)
           /\ \E o \in Ops("open") : o < r
    /\ Cardinality(Ops("read")) <= 1
    /\ pc \in AfterRead => Cardinality(Ops("read")) = 1
    /\ (openable /\ pc \in Returned) => Cardinality(Ops("read")) = 1
    /\ \A c \in Ops("check") : \E r \in Ops("read") : r < c
    /\ \A p \in Ops("print") : \E c \in Ops("check") : c < p

C10_Ordering ==
    /\ []C10_StepOrder
    /\ [][(pc \in AfterRead /\ run' = run) => header' = header]_vars
    /\ [][files' = files]_vars

C10_Witness ==
    /\ pc = "exited"
    /\ trace = <<Event("open", 0, 0), Event("read", 14, 0), Event("check", 0, 0),
                 Event("print", 0, 2), Event("print", 0, 10), Event("close", 0, 0)>>

====
